---- MODULE Spec2Model ----
(***************************************************************************)
(* Model of src/App.tsx of track-fitness: the camera loop                  *)
(* (handleCameraStream.loop), the unmount cleanup, the render path         *)
(* (renderPose) and the two per-frame classifiers (detectSquat,            *)
(* detectPushUp).                                                          *)
(*                                                                         *)
(* Numbers.  Keypoint scores are kept in tenths (0.2 is 2, 0.3 is 3).      *)
(* Keypoint coordinates are points of a small integer grid.  An angle is   *)
(* kept as the exact cosine it is the arccosine of: the pair (dot, m2)     *)
(* stands for acos(dot / sqrt(m2)) in degrees, where m2 is the product of  *)
(* the two squared magnitudes.  acos is strictly decreasing, so            *)
(* "angle < T" is "cosine > cos T"; the comparison is done on squares      *)
(* with cos^2 T taken from Cos2Num (parts per million).                    *)
(***************************************************************************)
EXTENDS Integers, Sequences, FiniteSets, TLC

\* ------------------------------------------------------------------ bounds
MaxX == 3
MaxY == 2
MaxFrames == 3
MaxCalls == 2

\* ------------------------------------------------------- program constants
\* App.tsx:34, in tenths
MIN_KEYPOINT_SCORE == 3
\* App.tsx:198 and App.tsx:301, in tenths
MIN_SCORE_THRESHOLD == 2
\* App.tsx:196
KNEE_ANGLE_THRESHOLD == 90
\* App.tsx:197
HIP_ANGLE_THRESHOLD == 120
\* App.tsx:299
ELBOW_ANGLE_THRESHOLD == 160
\* App.tsx:300
BODY_ALIGNMENT_THRESHOLD == 20
\* App.tsx:41
OUTPUT_TENSOR_WIDTH == 180
\* App.tsx:30: Dimensions.get('window').width of the device of the model
CAM_PREVIEW_WIDTH == 360
\* App.tsx:63: rafId.current === null is kept as -1
RafNull == -1
\* App.tsx:64: rafId.current === 0, the loop has been cancelled
RafCancelled == 0
\* App.tsx:141: Math.floor(1000 / 0) is IEEE +Infinity, kept as the largest integer
PosInfinity == 2147483647

VARIABLES
    mounted,        \* the App component is mounted (the cleanup has not run)
    prepareState,   \* "pending" | "ready" | "failed": position of prepare()
    model,          \* "undefined" | "detector": the model state (App.tsx:53)
    tfReady,        \* the tfReady state (App.tsx:52)
    started,        \* handleCameraStream has been called (onReady fired)
    rafId,          \* rafId.current (App.tsx:66)
    rafQueue,       \* ids of animation-frame callbacks requested and not yet run
    rafCount,       \* number of requestAnimationFrame calls so far (the last id)
    acquired,       \* number of images.next() calls so far (frame numbers 1..acquired)
    inflight,       \* frame numbers with an estimatePoses call that has not settled
    tensors,        \* frame numbers whose tensor has not been disposed
    failed,         \* frame numbers whose estimatePoses call rejected
    cancelledDuring,\* frame numbers that were in flight when the cleanup ran
    lastResult,     \* what the last settled estimatePoses call returned
    fps,            \* the fps state, as last given to setFps (App.tsx:55)
    poses,          \* the poses state, as last given to setPoses (App.tsx:54)
    posesFrame,     \* the frame number fps and poses were last set from (0: never)
    orientation,    \* the orientation state (App.tsx:56)
    cameraType,     \* the cameraType state (App.tsx:58)
    overlay,        \* what the last renderPose returned
    squatCalls,     \* detectSquat invocations made by the last render
    pushupCalls,    \* detectPushUp invocations made by the last render
    renderedFrame,  \* posesFrame of the poses state the last renderPose() saw
    squatLog,       \* the last line logged by detectSquat ("none": never called)
    pushupLog,      \* the last line logged by detectPushUp ("none": never called)
    platform,       \* Platform.OS of the build: "android" | "ios" (App.tsx:20-21)
    mathHypot       \* Math.hypot of the build's engine: "sqrt" | "scaled"

pipeVars == <<mounted, prepareState, model, tfReady, started, rafId, rafQueue,
              rafCount, acquired, inflight, tensors, failed, cancelledDuring,
              lastResult>>
stateVars == <<fps, poses, posesFrame, orientation, cameraType>>
renderVars == <<overlay, squatCalls, pushupCalls, renderedFrame, squatLog, pushupLog>>
buildVars == <<platform, mathHypot>>
vars == <<pipeVars, stateVars, renderVars, buildVars>>

\* ------------------------------------------------------------ keypoints
Sides == {"left", "right"}
Joints == {"shoulder", "elbow", "wrist", "hip", "knee", "ankle"}

\* The keypoint names the classifiers read (App.tsx:211-219, 314-326).
KpName(side, joint) ==
    IF side = "left"
    THEN CASE joint = "shoulder" -> "left_shoulder"
           [] joint = "elbow" -> "left_elbow"
           [] joint = "wrist" -> "left_wrist"
           [] joint = "hip" -> "left_hip"
           [] joint = "knee" -> "left_knee"
           [] joint = "ankle" -> "left_ankle"
    ELSE CASE joint = "shoulder" -> "right_shoulder"
           [] joint = "elbow" -> "right_elbow"
           [] joint = "wrist" -> "right_wrist"
           [] joint = "hip" -> "right_hip"
           [] joint = "knee" -> "right_knee"
           [] joint = "ankle" -> "right_ankle"

\* A posedetection.Keypoint {name, x, y, score}.
Keypoint(name, p, s) == [name |-> name, x |-> p[1], y |-> p[2], score |-> s]

\* A posedetection.Pose {keypoints}.
Pose(kps) == [keypoints |-> kps]

\* JavaScript null, as returned by getKeypoint.
Null == [null |-> TRUE]

\* ------------------------------------------------------------- geometry
NullAngle == [kind |-> "null"]
NaNAngle == [kind |-> "nan"]

\* Math.hypot is implementation-approximated (ECMAScript 21.3.2.18).  The
\* model knows two engines: "sqrt", whose Math.hypot(x, y) is the correctly
\* rounded sqrt(x*x + y*y), and "scaled", whose Math.hypot(x, y) is
\* sqrt((x/m)^2 + (y/m)^2) * m for m = max(|x|, |y|).  For parallel vectors
\* ba, bc the product of the magnitudes is |dotProduct| in the reals; in
\* IEEE doubles it can fall one unit in the last place below it, and the
\* quotient is then 1.0000000000000002 or its negative.
\*
\* "sqrt": the pairs of squared magnitudes up to 100 whose product of
\* square roots falls below (sqrt(13) * sqrt(13) = 12.999999999999998).
RoundsBelow ==
    { <<3, 3>>, <<3, 12>>, <<3, 48>>, <<6, 6>>, <<6, 24>>, <<6, 96>>, <<12, 3>>,
      <<12, 12>>, <<12, 48>>, <<13, 13>>, <<13, 52>>, <<18, 18>>, <<18, 72>>,
      <<18, 98>>, <<23, 23>>, <<23, 92>>, <<24, 6>>, <<24, 24>>, <<24, 96>>,
      <<26, 26>>, <<29, 29>>, <<31, 31>>, <<37, 37>>, <<38, 38>>, <<43, 43>>,
      <<48, 3>>, <<48, 12>>, <<48, 48>>, <<52, 13>>, <<52, 52>>, <<59, 59>>,
      <<61, 61>>, <<65, 65>>, <<72, 18>>, <<72, 72>>, <<72, 98>>, <<73, 73>>,
      <<89, 89>>, <<92, 23>>, <<92, 92>>, <<95, 95>>, <<96, 6>>, <<96, 24>>,
      <<96, 96>>, <<97, 97>>, <<98, 18>>, <<98, 72>> }

\* "scaled": the vectors (|x|, |y|) with components up to 7 whose magnitude
\* squared falls below; no pair of parallel vectors of different lengths
\* in that range does.
ScaledBelow == { <<1, 6>>, <<3, 5>>, <<4, 7>>, <<5, 3>>, <<6, 1>>, <<7, 4>> }

Abs(n) == IF n < 0 THEN -n ELSE n

\* Math.hypot(ba.x, ba.y) * Math.hypot(bc.x, bc.y) is below |dotProduct|,
\* for parallel ba, bc with components up to 7.
MagnitudesBelowDot(ba, bc) ==
    IF mathHypot = "sqrt"
    THEN <<ba.x * ba.x + ba.y * ba.y, bc.x * bc.x + bc.y * bc.y>> \in RoundsBelow
    ELSE /\ <<Abs(ba.x), Abs(ba.y)>> = <<Abs(bc.x), Abs(bc.y)>>
         /\ <<Abs(ba.x), Abs(ba.y)>> \in ScaledBelow

\* calculateAngle(a, b, c), App.tsx:170-193 and 273-296.  null when the
\* product of the magnitudes is 0; NaN when the quotient given to Math.acos
\* is outside [-1, 1]; else the angle, kept as its exact cosine.
calculateAngle(a, b, c) ==
    LET ba == [x |-> a.x - b.x, y |-> a.y - b.y]
        bc == [x |-> c.x - b.x, y |-> c.y - b.y]
        dotProduct == ba.x * bc.x + ba.y * bc.y
        sqBA == ba.x * ba.x + ba.y * ba.y
        sqBC == bc.x * bc.x + bc.y * bc.y
    IN  IF sqBA * sqBC = 0
        THEN NullAngle
        ELSE IF dotProduct * dotProduct = sqBA * sqBC /\ MagnitudesBelowDot(ba, bc)
             THEN NaNAngle
             ELSE [kind |-> "deg", dot |-> dotProduct, m2 |-> sqBA * sqBC]

\* cos^2 of the thresholds the program compares angles with, in parts per
\* million (cos^2 160 = 0.883022..., cos^2 170 = 0.969846...).
Cos2Num(deg) ==
    CASE deg = 90 -> 0
      [] deg = 120 -> 250000
      [] deg = 150 -> 750000
      [] deg = 160 -> 883022
      [] deg = 170 -> 969846
      [] deg = 180 -> 1000000

\* angle < deg for a threshold of 90..180 degrees; false for NaN.
AngleLess(angle, deg) ==
    /\ angle.kind = "deg"
    /\ IF angle.dot >= 0
       THEN angle.dot > 0 \/ deg > 90
       ELSE angle.dot * angle.dot * 1000000 < Cos2Num(deg) * angle.m2

\* angle > deg for a threshold of 90..180 degrees; false for NaN.
AngleGreater(angle, deg) ==
    /\ angle.kind = "deg"
    /\ angle.dot < 0
    /\ angle.dot * angle.dot * 1000000 > Cos2Num(deg) * angle.m2

\* ------------------------------------------------------ keypoint access
\* keypoints.forEach(kp => { keypointsDict[kp.name] = kp }), App.tsx:163-167
\* and 266-270: a later keypoint of the same name overwrites an earlier one.
\* forEachAssign that keeps an entry once it is written: the first
\* keypoint of a name wins.
forEachAssignFirstWins(kps, dict) ==
    [n \in DOMAIN dict \cup {kps[i].name : i \in DOMAIN kps} |->
        IF n \in DOMAIN dict
        THEN dict[n]
        ELSE kps[CHOOSE i \in DOMAIN kps :
                     /\ kps[i].name = n
                     /\ \A k \in DOMAIN kps : kps[k].name = n => i <= k]]

RECURSIVE forEachAssign(_, _)
forEachAssign(kps, dict) ==
    IF kps = <<>>
    THEN dict
    ELSE LET kp == Head(kps)
         IN  forEachAssign(Tail(kps),
                 [n \in DOMAIN dict \cup {kp.name} |->
                     IF n = kp.name THEN kp ELSE dict[n]])

keypointsDict(ps) == forEachAssign(ps[1].keypoints, [n \in {} |-> Null])

\* getKeypoint with a strict gate: a score of exactly 0.2 fails it.
getKeypointStrict(dict, name) ==
    IF name \in DOMAIN dict /\ dict[name].score > MIN_SCORE_THRESHOLD
    THEN dict[name]
    ELSE Null

\* getKeypoint(name), App.tsx:201-208 and 304-311.
getKeypoint(dict, name) ==
    IF name \in DOMAIN dict /\ dict[name].score >= MIN_SCORE_THRESHOLD
    THEN dict[name]
    ELSE Null

\* ----------------------------------------------------------- detectSquat
\* SquatLeft with null angles waved through: an angle that could not be
\* computed counts as below its threshold.
SquatLeftNullPasses(dict) ==
    LET left_hip == getKeypoint(dict, "left_hip")
        left_knee == getKeypoint(dict, "left_knee")
        left_ankle == getKeypoint(dict, "left_ankle")
        left_shoulder == getKeypoint(dict, "left_shoulder")
    IN  IF left_hip # Null /\ left_knee # Null /\ left_ankle # Null /\ left_shoulder # Null
        THEN LET left_knee_angle == calculateAngle(left_hip, left_knee, left_ankle)
                 left_hip_angle == calculateAngle(left_shoulder, left_hip, left_knee)
             IN  /\ left_knee_angle = NullAngle
                    \/ AngleLess(left_knee_angle, KNEE_ANGLE_THRESHOLD)
                 /\ left_hip_angle = NullAngle
                    \/ AngleLess(left_hip_angle, HIP_ANGLE_THRESHOLD)
        ELSE FALSE

\* The "Check left side" block of detectSquat, App.tsx:211-214 and 225-238.
SquatLeft(dict) ==
    LET left_hip == getKeypoint(dict, "left_hip")
        left_knee == getKeypoint(dict, "left_knee")
        left_ankle == getKeypoint(dict, "left_ankle")
        left_shoulder == getKeypoint(dict, "left_shoulder")
    IN  IF left_hip # Null /\ left_knee # Null /\ left_ankle # Null
        THEN LET left_knee_angle == calculateAngle(left_hip, left_knee, left_ankle)
                 left_hip_angle ==
                     IF left_shoulder # Null
                     THEN calculateAngle(left_shoulder, left_hip, left_knee)
                     ELSE NullAngle
             IN  /\ left_knee_angle # NullAngle
                 /\ AngleLess(left_knee_angle, KNEE_ANGLE_THRESHOLD)
                 /\ left_hip_angle # NullAngle
                 /\ AngleLess(left_hip_angle, HIP_ANGLE_THRESHOLD)
        ELSE FALSE

\* The "Check right side" block of detectSquat, App.tsx:216-219 and 241-253.
SquatRight(dict) ==
    LET right_hip == getKeypoint(dict, "right_hip")
        right_knee == getKeypoint(dict, "right_knee")
        right_ankle == getKeypoint(dict, "right_ankle")
        right_shoulder == getKeypoint(dict, "right_shoulder")
    IN  IF right_hip # Null /\ right_knee # Null /\ right_ankle # Null
        THEN LET right_knee_angle == calculateAngle(right_hip, right_knee, right_ankle)
                 right_hip_angle ==
                     IF right_shoulder # Null
                     THEN calculateAngle(right_shoulder, right_hip, right_knee)
                     ELSE NullAngle
             IN  /\ right_knee_angle # NullAngle
                 /\ AngleLess(right_knee_angle, KNEE_ANGLE_THRESHOLD)
                 /\ right_hip_angle # NullAngle
                 /\ AngleLess(right_hip_angle, HIP_ANGLE_THRESHOLD)
        ELSE FALSE

\* detectSquat(), App.tsx:161-260, reading the poses state ps; the value is
\* the line it logs.
detectSquat(ps) ==
    LET dict == keypointsDict(ps)
        squatDetected == SquatLeft(dict) \/ SquatRight(dict)
    IN  IF squatDetected THEN "Squat detected" ELSE "No squat detected"

\* ---------------------------------------------------------- detectPushUp
\* isBodyAligned(shoulder, hip, ankle), App.tsx:332-339.  The angle is at
\* most 180, so Math.abs(angle - 180) < t is angle > 180 - t.
isBodyAligned(shoulder, hip, ankle) ==
    LET angle == calculateAngle(shoulder, hip, ankle)
    IN  angle # NullAngle /\ AngleGreater(angle, 180 - BODY_ALIGNMENT_THRESHOLD)

\* The "Check left side" block of detectPushUp, App.tsx:314-319 and 342-352.
PushUpLeft(dict) ==
    LET left_shoulder == getKeypoint(dict, "left_shoulder")
        left_elbow == getKeypoint(dict, "left_elbow")
        left_wrist == getKeypoint(dict, "left_wrist")
        left_hip == getKeypoint(dict, "left_hip")
        left_knee == getKeypoint(dict, "left_knee")
        left_ankle == getKeypoint(dict, "left_ankle")
    IN  IF /\ left_shoulder # Null /\ left_elbow # Null /\ left_wrist # Null
           /\ left_hip # Null /\ left_knee # Null /\ left_ankle # Null
        THEN LET left_elbow_angle == calculateAngle(left_shoulder, left_elbow, left_wrist)
                 left_body_aligned == isBodyAligned(left_shoulder, left_hip, left_ankle)
             IN  /\ left_elbow_angle # NullAngle
                 /\ AngleGreater(left_elbow_angle, ELBOW_ANGLE_THRESHOLD)
                 /\ left_body_aligned
        ELSE FALSE

\* The "Check right side" block of detectPushUp, App.tsx:321-326 and 355-365.
PushUpRight(dict) ==
    LET right_shoulder == getKeypoint(dict, "right_shoulder")
        right_elbow == getKeypoint(dict, "right_elbow")
        right_wrist == getKeypoint(dict, "right_wrist")
        right_hip == getKeypoint(dict, "right_hip")
        right_knee == getKeypoint(dict, "right_knee")
        right_ankle == getKeypoint(dict, "right_ankle")
    IN  IF /\ right_shoulder # Null /\ right_elbow # Null /\ right_wrist # Null
           /\ right_hip # Null /\ right_knee # Null /\ right_ankle # Null
        THEN LET right_elbow_angle == calculateAngle(right_shoulder, right_elbow, right_wrist)
                 right_body_aligned == isBodyAligned(right_shoulder, right_hip, right_ankle)
             IN  /\ right_elbow_angle # NullAngle
                 /\ AngleGreater(right_elbow_angle, ELBOW_ANGLE_THRESHOLD)
                 /\ right_body_aligned
        ELSE FALSE

\* detectPushUp(), App.tsx:262-373, reading the poses state ps; the value is
\* the line it logs.
detectPushUp(ps) ==
    LET dict == keypointsDict(ps)
        pushupDetected == PushUpLeft(dict) \/ PushUpRight(dict)
    IN  IF pushupDetected THEN "Push-up detected" ELSE "No push-up detected"

\* ------------------------------------------------------------ renderPose
IS_ANDROID == platform = "android"
IS_IOS == platform = "ios"

\* App.tsx:31: CAM_PREVIEW_WIDTH / (IS_IOS ? 9 / 16 : 3 / 4)
CAM_PREVIEW_HEIGHT ==
    IF IS_IOS THEN (CAM_PREVIEW_WIDTH * 16) \div 9 ELSE (CAM_PREVIEW_WIDTH * 4) \div 3

\* App.tsx:42: OUTPUT_TENSOR_WIDTH / (IS_IOS ? 9 / 16 : 3 / 4)
OUTPUT_TENSOR_HEIGHT ==
    IF IS_IOS THEN (OUTPUT_TENSOR_WIDTH * 16) \div 9 ELSE (OUTPUT_TENSOR_WIDTH * 4) \div 3

\* isPortrait(), App.tsx:441-446.
isPortrait(o) == o \in {"PORTRAIT_UP", "PORTRAIT_DOWN"}

\* getOutputTensorWidth(), App.tsx:448-457.
getOutputTensorWidth(o) ==
    IF isPortrait(o) \/ IS_ANDROID THEN OUTPUT_TENSOR_WIDTH ELSE OUTPUT_TENSOR_HEIGHT

\* getOutputTensorHeight(), App.tsx:459-463.
getOutputTensorHeight(o) ==
    IF isPortrait(o) \/ IS_ANDROID THEN OUTPUT_TENSOR_HEIGHT ELSE OUTPUT_TENSOR_WIDTH

\* The .map callback of renderPose, App.tsx:379-403, without its two
\* classifier calls: the Circle of keypoint k.  cx and cy are kept as the
\* fractions cxNum / cxDen and cyNum / cyDen.
Circle(k, o, cam) ==
    LET flipX == IS_ANDROID \/ cam = "back"
        x == IF flipX THEN getOutputTensorWidth(o) - k.x ELSE k.x
        y == k.y
    IN  [key |-> k.name,
         cxNum |-> x * (IF isPortrait(o) THEN CAM_PREVIEW_WIDTH ELSE CAM_PREVIEW_HEIGHT),
         cxDen |-> getOutputTensorWidth(o),
         cyNum |-> y * (IF isPortrait(o) THEN CAM_PREVIEW_HEIGHT ELSE CAM_PREVIEW_WIDTH),
         cyDen |-> getOutputTensorHeight(o)]

\* The .filter of renderPose, App.tsx:378.
RenderFilter(kps) == SelectSeq(kps, LAMBDA k : k.score > MIN_KEYPOINT_SCORE)

\* renderPose(), App.tsx:375-409, on the poses state ps: what it returns
\* and how often the .map callback ran, each run calling detectSquat() and
\* detectPushUp() once (App.tsx:390-391).
renderPose(ps, o, cam) ==
    IF Len(ps) > 0
    THEN LET kept == RenderFilter(ps[1].keypoints)
         IN  [overlay |-> [kind |-> "svg",
                           circles |-> [i \in 1..Len(kept) |-> Circle(kept[i], o, cam)]],
              calls |-> Len(kept)]
    ELSE [overlay |-> [kind |-> "view"], calls |-> 0]

\* The keypoints as the overlay stretches them in landscape on Android,
\* where the horizontal scale exceeds the vertical one (App.tsx:380-387);
\* the stretch is kept as a doubling of x.
Stretched(ps, o) ==
    IF Len(ps) > 0 /\ IS_ANDROID /\ ~isPortrait(o)
    THEN <<Pose([i \in DOMAIN ps[1].keypoints |->
                    [ps[1].keypoints[i] EXCEPT !.x = 2 * @]])>>
    ELSE ps

\* AppRender with the classifiers reading the keypoints as drawn instead
\* of the keypoints estimatePoses returned.
AppRenderClassifyDrawn(tfR, ps, pf, o, cam) ==
    IF ~mounted
    THEN UNCHANGED renderVars
    ELSE IF ~tfR
    THEN /\ overlay' = [kind |-> "loading"]
         /\ squatCalls' = 0
         /\ pushupCalls' = 0
         /\ UNCHANGED <<renderedFrame, squatLog, pushupLog>>
    ELSE LET r == renderPose(ps, o, cam)
         IN  /\ overlay' = r.overlay
             /\ squatCalls' = r.calls
             /\ pushupCalls' = r.calls
             /\ renderedFrame' = pf
             /\ squatLog' = IF r.calls > 0 THEN detectSquat(Stretched(ps, o)) ELSE squatLog
             /\ pushupLog' = IF r.calls > 0 THEN detectPushUp(Stretched(ps, o)) ELSE pushupLog

\* AppRender with the two classifier calls moved out of the pose guard of
\* renderPose: they run once in every render, pose or no pose.
AppRenderClassifyAlways(tfR, ps, pf, o, cam) ==
    IF ~mounted
    THEN UNCHANGED renderVars
    ELSE IF ~tfR
    THEN /\ overlay' = [kind |-> "loading"]
         /\ squatCalls' = 0
         /\ pushupCalls' = 0
         /\ UNCHANGED <<renderedFrame, squatLog, pushupLog>>
    ELSE LET r == renderPose(ps, o, cam)
         IN  /\ overlay' = r.overlay
             /\ squatCalls' = 1
             /\ pushupCalls' = 1
             /\ renderedFrame' = pf
             /\ squatLog' = IF Len(ps) > 0 THEN detectSquat(ps) ELSE "No squat detected"
             /\ pushupLog' = IF Len(ps) > 0 THEN detectPushUp(ps) ELSE "No push-up detected"

\* One render of App, App.tsx:488-520, with the state given: the loading
\* message while tfReady is false, renderPose() otherwise.  Nothing renders
\* once the component is unmounted.
AppRender(tfR, ps, pf, o, cam) ==
    IF ~mounted
    THEN UNCHANGED renderVars
    ELSE IF ~tfR
    THEN /\ overlay' = [kind |-> "loading"]
         /\ squatCalls' = 0
         /\ pushupCalls' = 0
         /\ UNCHANGED <<renderedFrame, squatLog, pushupLog>>
    ELSE LET r == renderPose(ps, o, cam)
         IN  /\ overlay' = r.overlay
             /\ squatCalls' = r.calls
             /\ pushupCalls' = r.calls
             /\ renderedFrame' = pf
             /\ squatLog' = IF r.calls > 0 THEN detectSquat(ps) ELSE squatLog
             /\ pushupLog' = IF r.calls > 0 THEN detectPushUp(ps) ELSE pushupLog

\* ------------------------------------------------- what the estimator returns
\* One body side given as a function from the joints present to
\* <<point, score>>, as keypoints in the order shoulder .. ankle.
JointOrder == <<"shoulder", "elbow", "wrist", "hip", "knee", "ankle">>

SideKeypoints(side, cfg) ==
    LET present == SelectSeq(JointOrder, LAMBDA j : j \in DOMAIN cfg)
    IN  [i \in 1..Len(present) |->
            Keypoint(KpName(side, present[i]), cfg[present[i]][1], cfg[present[i]][2])]

\* Knee angle 45, hip angle 45, elbow angle 180, body angle 45: a squat,
\* no push-up.
SquattingAt ==
    [j \in Joints |->
        CASE j = "shoulder" -> <<1, 1>> [] j = "elbow" -> <<2, 1>>
          [] j = "wrist" -> <<3, 1>> [] j = "hip" -> <<0, 0>>
          [] j = "knee" -> <<1, 0>> [] j = "ankle" -> <<0, 1>>]

\* Knee angle 45, hip angle 135, elbow angle 180, body angle 180: a
\* push-up, no squat.
PlankingAt ==
    [j \in Joints |->
        CASE j = "shoulder" -> <<0, 0>> [] j = "elbow" -> <<1, 0>>
          [] j = "wrist" -> <<3, 0>> [] j = "hip" -> <<2, 0>>
          [] j = "knee" -> <<3, 1>> [] j = "ankle" -> <<3, 0>>]

\* Knee angle 180, hip angle 180, elbow angle 90, body angle 180: neither.
StandingAt ==
    [j \in Joints |->
        CASE j = "shoulder" -> <<0, 0>> [] j = "elbow" -> <<0, 1>>
          [] j = "wrist" -> <<1, 1>> [] j = "hip" -> <<1, 0>>
          [] j = "knee" -> <<2, 0>> [] j = "ankle" -> <<3, 0>>]

\* Knee angle 72, hip angle 45, elbow angle 180, body angle 27: a squat
\* with the shin leaning back, no push-up.
CrouchingAt ==
    [j \in Joints |->
        CASE j = "shoulder" -> <<1, 1>> [] j = "elbow" -> <<2, 1>>
          [] j = "wrist" -> <<3, 1>> [] j = "hip" -> <<0, 1>>
          [] j = "knee" -> <<1, 0>> [] j = "ankle" -> <<2, 2>>]

\* A leg folded at the knee: hip and ankle in the same direction v from the
\* knee, the ankle n times as far as the hip.  Knee angle 0, hip angle
\* below 90.
FoldedAt(v, n) ==
    [j \in Joints |->
        CASE j = "shoulder" -> <<v[1], v[2]>> [] j = "elbow" -> <<v[1], v[2] + 1>>
          [] j = "wrist" -> <<v[1], v[2] + 2>> [] j = "hip" -> <<1 + v[1], 1 + v[2]>>
          [] j = "knee" -> <<1, 1>> [] j = "ankle" -> <<1 + n * v[1], 1 + n * v[2]>>]

\* A straight body: shoulder and ankle at -v and +v from the hip, the arm
\* stretched.  Elbow angle 180, body angle 180.
StraightAt(v) ==
    [j \in Joints |->
        CASE j = "shoulder" -> <<6 - v[1], 5 - v[2]>> [] j = "elbow" -> <<6 - v[1], 6 - v[2]>>
          [] j = "wrist" -> <<6 - v[1], 7 - v[2]>> [] j = "hip" -> <<6, 5>>
          [] j = "knee" -> <<7, 5>> [] j = "ankle" -> <<6 + v[1], 5 + v[2]>>]

\* Directions of the folded leg and of the straight body.
Directions == { <<1, 0>>, <<2, 1>>, <<3, 2>>, <<3, 5>>, <<6, 1>> }

\* The joints js of a side placed as in at, all of score s.
Placed(at, js, s) == [j \in js |-> <<at[j], s>>]

Squatting(side, s) == SideKeypoints(side, Placed(SquattingAt, Joints, s))

Planking(side, s) == SideKeypoints(side, Placed(PlankingAt, Joints, s))

Crouching(side, s) == SideKeypoints(side, Placed(CrouchingAt, Joints, s))

\* The pose lists estimatePoses resolves with in the model: none, one pose
\* (well above, or exactly at, the render gate), two poses.
EstimateResults ==
    { <<>>,
      <<Pose(Squatting("left", MIN_KEYPOINT_SCORE + 1))>>,
      <<Pose(Squatting("left", MIN_KEYPOINT_SCORE))>>,
      <<Pose(Planking("left", MIN_KEYPOINT_SCORE + 1))>>,
      <<Pose(Crouching("right", MIN_KEYPOINT_SCORE + 1))>>,
      <<Pose(Planking("right", MIN_KEYPOINT_SCORE + 1)),
        Pose(Squatting("left", MIN_KEYPOINT_SCORE + 1))>> }

\* Date.now() - startTs in milliseconds, App.tsx:140.
Latencies == {0, 40}

Orientations == {"PORTRAIT_UP", "LANDSCAPE_LEFT"}

\* ------------------------------------------------------------- pipeline
\* The state after the first render of App (App.tsx:50-66 and 488-493).
Init ==
    /\ mounted = TRUE
    /\ prepareState = "pending"
    /\ model = "undefined"
    /\ tfReady = FALSE
    /\ started = FALSE
    /\ rafId = RafNull
    /\ rafQueue = {}
    /\ rafCount = 0
    /\ acquired = 0
    /\ inflight = {}
    /\ tensors = {}
    /\ failed = {}
    /\ cancelledDuring = {}
    /\ lastResult = [frame |-> 0, poses |-> <<>>]
    /\ fps = 0
    /\ poses = <<>>
    /\ posesFrame = 0
    /\ orientation = "undefined"
    /\ cameraType = "front"
    /\ overlay = [kind |-> "loading"]
    /\ squatCalls = 0
    /\ pushupCalls = 0
    /\ renderedFrame = 0
    /\ squatLog = "none"
    /\ pushupLog = "none"
    /\ platform \in {"android", "ios"}
    /\ mathHypot \in {"sqrt", "scaled"}

\* prepare() up to the orientation listener, App.tsx:70-79.
PrepareOrientation(o) ==
    /\ prepareState = "pending"
    /\ prepareState' = "listening"
    /\ orientation' = o
    /\ AppRender(tfReady, poses, posesFrame, o, cameraType)
    /\ UNCHANGED <<mounted, model, tfReady, started, rafId, rafQueue, rafCount,
                   acquired, inflight, tensors, failed, cancelledDuring, lastResult>>
    /\ UNCHANGED <<fps, poses, posesFrame, cameraType, buildVars>>

\* The rest of prepare(), App.tsx:81-109: the detector is created, then
\* setModel(model) and setTfReady(true).
PrepareReady ==
    /\ prepareState = "listening"
    /\ prepareState' = "ready"
    /\ model' = "detector"
    /\ tfReady' = TRUE
    /\ AppRender(TRUE, poses, posesFrame, orientation, cameraType)
    /\ UNCHANGED <<mounted, started, rafId, rafQueue, rafCount,
                   acquired, inflight, tensors, failed, cancelledDuring, lastResult>>
    /\ UNCHANGED <<stateVars, buildVars>>

\* One of the awaits of prepare() rejects (App.tsx:73, 82, 85, 102): the
\* lines after it never run.
PrepareFail ==
    /\ prepareState \in {"pending", "listening"}
    /\ prepareState' = "failed"
    /\ UNCHANGED <<mounted, model, tfReady, started, rafId, rafQueue, rafCount,
                   acquired, inflight, tensors, failed, cancelledDuring, lastResult>>
    /\ UNCHANGED <<stateVars, renderVars, buildVars>>

\* The orientation change listener, App.tsx:77-79.
OrientationChange(o) ==
    /\ prepareState # "pending"
    /\ o # orientation
    /\ orientation' = o
    /\ AppRender(tfReady, poses, posesFrame, o, cameraType)
    /\ UNCHANGED <<pipeVars, fps, poses, posesFrame, cameraType, buildVars>>

\* handleSwitchCameraType(), App.tsx:433-439; the switcher is on screen
\* once tfReady is true (App.tsx:517).
handleSwitchCameraType ==
    /\ mounted
    /\ tfReady
    /\ cameraType' = IF cameraType = "front" THEN "back" ELSE "front"
    /\ AppRender(tfReady, poses, posesFrame, orientation, cameraType')
    /\ UNCHANGED <<pipeVars, fps, poses, posesFrame, orientation, buildVars>>

\* The start of loop(), App.tsx:131-139: the next tensor is taken from the
\* iterator and estimatePoses is called on it.
LoopBegin ==
    /\ acquired' = acquired + 1
    /\ tensors' = tensors \cup {acquired + 1}
    /\ inflight' = inflight \cup {acquired + 1}

\* handleCameraStream with the TensorCamera on screen from the first
\* render on, whatever tfReady is.
handleCameraStreamUngated ==
    /\ mounted
    /\ ~started
    /\ acquired < MaxFrames
    /\ started' = TRUE
    /\ LoopBegin
    /\ UNCHANGED <<mounted, prepareState, model, tfReady, rafId, rafQueue, rafCount,
                   failed, cancelledDuring, lastResult>>
    /\ UNCHANGED <<stateVars, renderVars, buildVars>>

\* handleCameraStream, App.tsx:125-159: onReady of the TensorCamera, which
\* is on screen once tfReady is true (App.tsx:503-514); it calls loop().
handleCameraStream ==
    /\ mounted
    /\ tfReady
    /\ ~started
    /\ acquired < MaxFrames
    /\ started' = TRUE
    /\ LoopBegin
    /\ UNCHANGED <<mounted, prepareState, model, tfReady, rafId, rafQueue, rafCount,
                   failed, cancelledDuring, lastResult>>
    /\ UNCHANGED <<stateVars, renderVars, buildVars>>

\* AnimationFrame with a callback that stays armed (an interval timer
\* instead of a one-shot animation frame).
AnimationFrameRepeating(id) ==
    /\ id \in rafQueue
    /\ acquired < MaxFrames
    /\ LoopBegin
    /\ UNCHANGED <<mounted, prepareState, model, tfReady, started, rafId, rafQueue,
                   rafCount, failed, cancelledDuring, lastResult>>
    /\ UNCHANGED <<stateVars, renderVars, buildVars>>

\* An animation frame runs the loop callback requested at App.tsx:155.
AnimationFrame(id) ==
    /\ id \in rafQueue
    /\ acquired < MaxFrames
    /\ rafQueue' = rafQueue \ {id}
    /\ LoopBegin
    /\ UNCHANGED <<mounted, prepareState, model, tfReady, started, rafId, rafCount,
                   failed, cancelledDuring, lastResult>>
    /\ UNCHANGED <<stateVars, renderVars, buildVars>>

\* Math.floor(1000 / latency), App.tsx:141.
FpsOf(latency) == IF latency = 0 THEN PosInfinity ELSE 1000 \div latency

\* LoopEnd without the requestAnimationFrame call: loop() runs once.
LoopEndNoRequest == UNCHANGED <<rafId, rafQueue, rafCount>>

\* The tail of loop(), App.tsx:145-155: return when cancelled, else
\* request the next animation frame.
LoopEnd ==
    IF rafId = RafCancelled
    THEN UNCHANGED <<rafId, rafQueue, rafCount>>
    ELSE /\ rafCount' = rafCount + 1
         /\ rafId' = rafCount + 1
         /\ rafQueue' = rafQueue \cup {rafCount + 1}

\* loop() after estimatePoses of frame f resolved with result after
\* latency ms, App.tsx:140-155.
EstimateResolve(f, result, latency) ==
    /\ f \in inflight
    /\ inflight' = inflight \ {f}
    /\ lastResult' = [frame |-> f, poses |-> result]
    /\ fps' = FpsOf(latency)
    /\ poses' = result
    /\ posesFrame' = f
    /\ AppRender(tfReady, result, f, orientation, cameraType)
    /\ tensors' = tensors \ {f}
    /\ LoopEnd
    /\ UNCHANGED <<mounted, prepareState, model, tfReady, started, acquired, failed,
                   cancelledDuring>>
    /\ UNCHANGED <<orientation, cameraType, buildVars>>

\* EstimateReject with a handler that resets the published metric and pose.
EstimateRejectResetting(f) ==
    /\ f \in inflight
    /\ inflight' = inflight \ {f}
    /\ failed' = failed \cup {f}
    /\ fps' = 0
    /\ poses' = <<>>
    /\ posesFrame' = f
    /\ UNCHANGED <<mounted, prepareState, model, tfReady, started, rafId, rafQueue,
                   rafCount, acquired, tensors, cancelledDuring, lastResult>>
    /\ UNCHANGED <<orientation, cameraType, renderVars, buildVars>>

\* estimatePoses of frame f rejects, App.tsx:135: the await throws, the
\* rest of loop() does not run and nothing catches the rejection.
EstimateReject(f) ==
    /\ f \in inflight
    /\ inflight' = inflight \ {f}
    /\ failed' = failed \cup {f}
    /\ UNCHANGED <<mounted, prepareState, model, tfReady, started, rafId, rafQueue,
                   rafCount, acquired, tensors, cancelledDuring, lastResult>>
    /\ UNCHANGED <<stateVars, renderVars, buildVars>>

\* Unmount without the cancelAnimationFrame call of App.tsx:119.
UnmountNoCancelAnimationFrame ==
    /\ mounted
    /\ mounted' = FALSE
    /\ cancelledDuring' = inflight
    /\ IF rafId # RafNull /\ rafId # RafCancelled
       THEN /\ rafId' = RafCancelled
            /\ UNCHANGED rafQueue
       ELSE UNCHANGED <<rafId, rafQueue>>
    /\ UNCHANGED <<prepareState, model, tfReady, started, rafCount, acquired,
                   inflight, tensors, failed, lastResult>>
    /\ UNCHANGED <<stateVars, renderVars, buildVars>>

\* The effect cleanup run when App is unmounted, App.tsx:115-123.
Unmount ==
    /\ mounted
    /\ mounted' = FALSE
    /\ cancelledDuring' = inflight
    /\ IF rafId # RafNull /\ rafId # RafCancelled
       THEN /\ rafQueue' = rafQueue \ {rafId}
            /\ rafId' = RafCancelled
       ELSE UNCHANGED <<rafId, rafQueue>>
    /\ UNCHANGED <<prepareState, model, tfReady, started, rafCount, acquired,
                   inflight, tensors, failed, lastResult>>
    /\ UNCHANGED <<stateVars, renderVars, buildVars>>

Next ==
    \/ \E o \in Orientations : PrepareOrientation(o)
    \/ PrepareReady
    \/ PrepareFail
    \/ \E o \in Orientations : OrientationChange(o)
    \/ handleSwitchCameraType
    \/ handleCameraStream
    \/ \E id \in rafQueue : AnimationFrame(id)
    \/ \E f \in inflight, result \in EstimateResults, latency \in Latencies :
           EstimateResolve(f, result, latency)
    \/ \E f \in inflight : EstimateReject(f)
    \/ Unmount

Spec == Init /\ [][Next]_vars

\* The pipeline with the scheduling the platform guarantees: a callback
\* given to requestAnimationFrame (App.tsx:155) and not cancelled is run.
SpecLive == Spec /\ WF_vars(\E id \in rafQueue : AnimationFrame(id))

\* ------------------------------------------- the classifiers on their own
\* The inputs of the classifier specifications: poses whose keypoints lie
\* on the grid (0..MaxX) x (0..MaxY), one configuration per body side.
Grid == (0..MaxX) \X (0..MaxY)

OtherSide(side) == IF side = "left" THEN "right" ELSE "left"

\* Scores around the classifier gate: below it, at it, above it.
GateScores == (MIN_SCORE_THRESHOLD - 1)..(MIN_SCORE_THRESHOLD + 1)

\* The joints js placed as in at, with every choice of which of them are
\* present and of their scores.
GateChoices(at, js) ==
    UNION { { [j \in D |-> <<at[j], sc[j]>>] : sc \in [D -> GateScores] } :
            D \in SUBSET js }

\* The joints js exactly at the gate: those of free at every point of the
\* grid, the others placed as in at.
GridChoices(at, js, free) ==
    { [j \in js |-> <<IF j \in free THEN pos[j] ELSE at[j], MIN_SCORE_THRESHOLD>>] :
        pos \in [free -> Grid] }

NoSide == [j \in {} |-> <<>>]

\* The state of a running App whose poses state is ps and whose last
\* render ran no classifier (no keypoint of ps is above the render gate).
ShowingPoses(ps) ==
    /\ mounted = TRUE
    /\ prepareState = "ready"
    /\ model = "detector"
    /\ tfReady = TRUE
    /\ started = TRUE
    /\ rafId = 1
    /\ rafQueue = {1}
    /\ rafCount = 1
    /\ acquired = 1
    /\ inflight = {}
    /\ tensors = {}
    /\ failed = {}
    /\ cancelledDuring = {}
    /\ lastResult = [frame |-> 1, poses |-> ps]
    /\ fps = 25
    /\ poses = ps
    /\ posesFrame = 1
    /\ orientation = "PORTRAIT_UP"
    /\ cameraType = "front"
    /\ platform = "android"
    /\ overlay = renderPose(ps, "PORTRAIT_UP", "front").overlay
    /\ squatCalls = 0
    /\ pushupCalls = 0
    /\ renderedFrame = 1
    /\ squatLog = "none"
    /\ pushupLog = "none"

SquatJoints == {"shoulder", "hip", "knee", "ankle"}

SquatOtherSides ==
    { NoSide,
      Placed(SquattingAt, SquatJoints, MIN_SCORE_THRESHOLD),
      Placed(StandingAt, SquatJoints, MIN_SCORE_THRESHOLD) }

\* One side with either its leg (hip, knee, ankle) or its hip triangle
\* (shoulder, hip, knee) anywhere on the grid and the fourth joint in squat
\* position, or one side with the leg folded, or both sides with one of
\* them around the gate (no angle of those placements is NaN).
InitSquat ==
    \E side \in Sides :
        \/ /\ mathHypot \in {"sqrt", "scaled"}
           /\ \E free \in {{"hip", "knee", "ankle"}, {"shoulder", "hip", "knee"}} :
                  \E cfg \in GridChoices(SquattingAt, SquatJoints, free) :
                      ShowingPoses(<<Pose(SideKeypoints(side, cfg))>>)
        \/ /\ mathHypot \in {"sqrt", "scaled"}
           /\ \E v \in Directions, n \in 1..2 :
                  /\ n * v[1] <= 7 /\ n * v[2] <= 7
                  /\ ShowingPoses(<<Pose(SideKeypoints(side,
                         Placed(FoldedAt(v, n), SquatJoints, MIN_SCORE_THRESHOLD)))>>)
        \/ /\ mathHypot = "sqrt"
           /\ \E cfg \in GateChoices(SquattingAt, SquatJoints), other \in SquatOtherSides :
                  ShowingPoses(<<Pose(SideKeypoints(side, cfg)
                                      \o SideKeypoints(OtherSide(side), other))>>)

\* One call of detectSquat() on the poses state, App.tsx:161-260.
CallDetectSquat ==
    /\ squatLog = "none"
    /\ squatLog' = detectSquat(poses)
    /\ squatCalls' = squatCalls + 1
    /\ UNCHANGED <<pipeVars, stateVars, buildVars>>
    /\ UNCHANGED <<overlay, pushupCalls, renderedFrame, pushupLog>>

NextSquat == CallDetectSquat

SpecSquat == InitSquat /\ [][NextSquat]_vars

PushUpOtherSides ==
    { NoSide,
      Placed(PlankingAt, Joints, MIN_SCORE_THRESHOLD),
      Placed(SquattingAt, Joints, MIN_SCORE_THRESHOLD) }

\* One side with either its arm (shoulder, elbow, wrist) or its trunk
\* (shoulder, hip, ankle) anywhere on the grid and the other joints in
\* push-up position, or one side with the body straight, or both sides
\* with one of them around the gate.
InitPushUp ==
    \E side \in Sides :
        \/ /\ mathHypot \in {"sqrt", "scaled"}
           /\ \E free \in {{"shoulder", "elbow", "wrist"}, {"shoulder", "hip", "ankle"}} :
                  \E cfg \in GridChoices(PlankingAt, Joints, free) :
                      ShowingPoses(<<Pose(SideKeypoints(side, cfg))>>)
        \/ /\ mathHypot \in {"sqrt", "scaled"}
           /\ \E v \in Directions :
                  ShowingPoses(<<Pose(SideKeypoints(side,
                      Placed(StraightAt(v), Joints, MIN_SCORE_THRESHOLD)))>>)
        \/ /\ mathHypot = "sqrt"
           /\ \E cfg \in GateChoices(PlankingAt, Joints), other \in PushUpOtherSides :
                  ShowingPoses(<<Pose(SideKeypoints(side, cfg)
                                      \o SideKeypoints(OtherSide(side), other))>>)

\* One call of detectPushUp() on the poses state, App.tsx:262-373.
CallDetectPushUp ==
    /\ pushupLog = "none"
    /\ pushupLog' = detectPushUp(poses)
    /\ pushupCalls' = pushupCalls + 1
    /\ UNCHANGED <<pipeVars, stateVars, buildVars>>
    /\ UNCHANGED <<overlay, squatCalls, renderedFrame, squatLog>>

NextPushUp == CallDetectPushUp

SpecPushUp == InitPushUp /\ [][NextPushUp]_vars

\* CallClassifiers with classifiers that remember their last answer and
\* report a detection only when it is new.
CallClassifiersOnChange ==
    /\ squatCalls < MaxCalls
    /\ squatLog' = IF squatLog = "Squat detected"
                   THEN "No squat detected" ELSE detectSquat(poses)
    /\ squatCalls' = squatCalls + 1
    /\ pushupLog' = IF pushupLog = "Push-up detected"
                    THEN "No push-up detected" ELSE detectPushUp(poses)
    /\ pushupCalls' = pushupCalls + 1
    /\ UNCHANGED <<pipeVars, stateVars, buildVars>>
    /\ UNCHANGED <<overlay, renderedFrame>>

\* The two classifier calls of the .map callback of renderPose,
\* App.tsx:390-391: detectSquat(), then detectPushUp(), on the poses state.
CallClassifiers ==
    /\ squatCalls < MaxCalls
    /\ squatLog' = detectSquat(poses)
    /\ squatCalls' = squatCalls + 1
    /\ pushupLog' = detectPushUp(poses)
    /\ pushupCalls' = pushupCalls + 1
    /\ UNCHANGED <<pipeVars, stateVars, buildVars>>
    /\ UNCHANGED <<overlay, renderedFrame>>

\* The pairs of joints that meet in an angle of one of the two rules.
FreePairs ==
    { {"hip", "knee"}, {"knee", "ankle"}, {"shoulder", "hip"},
      {"shoulder", "elbow"}, {"elbow", "wrist"}, {"hip", "ankle"} }

\* A second keypoint of the name of joint j of a side: where the squatting
\* body has it, where the body in push-up position has it, or where the
\* standing body has it, with a score around the gate.
DuplicateKeypoints(side, j) ==
    { Keypoint(KpName(side, j), at[j], s) :
        at \in {SquattingAt, PlankingAt, StandingAt}, s \in GateScores }

\* One side of a body that squats or is in push-up position with two of
\* its joints anywhere on the grid, or with one keypoint name occurring
\* twice, or with the leg folded, or with the body straight.
InitClassify ==
    /\ mathHypot \in {"sqrt", "scaled"}
    /\ \E side \in Sides :
           \/ \E at \in {SquattingAt, PlankingAt}, free \in FreePairs :
                  \E cfg \in GridChoices(at, Joints, free) :
                      ShowingPoses(<<Pose(SideKeypoints(side, cfg))>>)
           \/ \E j \in Joints, s \in GateScores :
                \E twin \in DuplicateKeypoints(side, j) :
                  \/ ShowingPoses(<<Pose(<<twin>> \o SideKeypoints(side,
                         Placed(SquattingAt, Joints, s)))>>)
                  \/ ShowingPoses(<<Pose(SideKeypoints(side,
                         Placed(PlankingAt, Joints, s)) \o <<twin>>)>>)
           \/ \E v \in Directions :
                  \/ ShowingPoses(<<Pose(SideKeypoints(side,
                         Placed(FoldedAt(v, 1), Joints, MIN_SCORE_THRESHOLD)))>>)
                  \/ ShowingPoses(<<Pose(SideKeypoints(side,
                         Placed(StraightAt(v), Joints, MIN_SCORE_THRESHOLD)))>>)

NextClassify == CallClassifiers

SpecClassify == InitClassify /\ [][NextClassify]_vars

\* ================================================================ claims
\* C1: when the cleanup runs while an estimatePoses call is in flight (the
\* first iteration included), then once that call has resolved no animation
\* frame is pending and no further frame has been acquired.
C1_NoIterationAfterCancel ==
    \A f \in cancelledDuring :
        (f \notin inflight /\ f \notin failed) =>
            (rafQueue = {} /\ inflight = {} /\ acquired = f)

\* C2: when the loop is cancelled (rafId = 0) while an estimatePoses call is
\* in flight, then once that call has resolved its tensor is disposed and
\* neither fps nor poses has been set from that frame's result.
C2_NoPublishAfterCancel ==
    \A f \in cancelledDuring :
        (rafId = RafCancelled /\ f \notin inflight /\ f \notin failed) =>
            (f \notin tensors /\ posesFrame # f)

\* C3: a step in which an estimatePoses call rejects while the loop is not
\* cancelled leaves the loop not cancelled and with a next iteration
\* scheduled.
C3_FailureKeepsRunning ==
    [][(failed' # failed /\ rafId # RafCancelled) =>
           (rafId' # RafCancelled /\ rafQueue' # {})]_vars

\* C4: at most one estimatePoses call is in flight, it is the call of the
\* newest frame, and every older frame has been fully processed: resolved,
\* published in acquisition order and disposed.
C4_OneAtATime ==
    /\ Cardinality(inflight) <= 1
    /\ inflight \subseteq {acquired}
    /\ \A f \in 1..(acquired - 1) :
           f \notin inflight /\ f \notin tensors /\ f \notin failed
    /\ acquired > 0 => posesFrame \in {acquired - 1, acquired}

C4_Witness ==
    acquired = 3 /\ inflight = {3} /\ posesFrame = 2 /\ tensors = {3}

\* C5: rafId = 0 is terminal: whenever rafId is 0 no animation frame is
\* pending, and from a state with rafId = 0 every step keeps rafId = 0,
\* acquires no frame, starts no estimatePoses call and requests no
\* animation frame.
C5_CancelledIsTerminal ==
    [][/\ rafId' = RafCancelled => rafQueue' = {}
       /\ rafId = RafCancelled =>
              /\ rafId' = RafCancelled
              /\ acquired' = acquired
              /\ inflight' \subseteq inflight
              /\ rafCount' = rafCount]_vars

C5_Witness ==
    /\ rafId = RafCancelled
    /\ cancelledDuring # {}
    /\ inflight = {}
    /\ acquired >= 2
    /\ acquired < MaxFrames

\* C6: when the poses state on screen is the empty list estimatePoses
\* returned for a frame, the render of that state invoked neither
\* detectSquat nor detectPushUp and renderPose returned the empty view.
C6_EmptyResultNotClassified ==
    (lastResult.frame > 0 /\ lastResult.poses = <<>>
        /\ renderedFrame = lastResult.frame) =>
            /\ squatCalls = 0
            /\ pushupCalls = 0
            /\ overlay = [kind |-> "view"]

C6_Witness ==
    /\ lastResult.frame >= 2
    /\ lastResult.poses = <<>>
    /\ renderedFrame = lastResult.frame
    /\ squatLog = "Squat detected"

\* C7: while the component is mounted, after estimatePoses returned at
\* least one pose for a frame, both classifiers have been run on the first
\* pose of that result, whatever the scores of its keypoints.
C7_ClassifiersRunOnPrimaryPose ==
    (mounted /\ lastResult.frame > 0 /\ Len(lastResult.poses) > 0
        /\ posesFrame = lastResult.frame) =>
            /\ renderedFrame = lastResult.frame
            /\ squatCalls >= 1
            /\ pushupCalls >= 1
            /\ squatLog = detectSquat(lastResult.poses)
            /\ pushupLog = detectPushUp(lastResult.poses)

\* C8: a step in which an estimatePoses call rejects changes neither fps
\* nor poses, runs no classifier and renders nothing; a rejected frame is
\* never the frame on screen.
C8_FailureLeavesMetricAndPose ==
    [][failed' # failed =>
           /\ fps' = fps
           /\ poses' = poses
           /\ posesFrame' = posesFrame
           /\ posesFrame' \notin failed'
           /\ renderedFrame' \notin failed'
           /\ UNCHANGED renderVars]_vars

C8_Witness ==
    /\ failed = {2}
    /\ fps = 25
    /\ posesFrame = 1
    /\ Len(poses) > 0
    /\ squatLog = "Squat detected"

\* The keypoint of a name in a pose is its last occurrence in the keypoint
\* sequence; it passes the score gate when its score is at least 0.2.
Occurrences(pose, name) == {i \in DOMAIN pose.keypoints : pose.keypoints[i].name = name}

Named(pose, name) ==
    pose.keypoints[CHOOSE i \in Occurrences(pose, name) :
                       \A k \in Occurrences(pose, name) : k <= i]

PassesGate(pose, name) ==
    Occurrences(pose, name) # {} /\ Named(pose, name).score >= 2

\* The angle at vertex b between a and c: undefined exactly when a = b or
\* c = b, else acos of the exact cosine, in [0, 180].
angleAtVertex(a, b, c) ==
    LET dot == (a.x - b.x) * (c.x - b.x) + (a.y - b.y) * (c.y - b.y)
        sqBA == (a.x - b.x) * (a.x - b.x) + (a.y - b.y) * (a.y - b.y)
        sqBC == (c.x - b.x) * (c.x - b.x) + (c.y - b.y) * (c.y - b.y)
    IN  IF (a.x = b.x /\ a.y = b.y) \/ (c.x = b.x /\ c.y = b.y)
        THEN NullAngle
        ELSE [kind |-> "deg", dot |-> dot, m2 |-> sqBA * sqBC]

\* The angle at joint b of a side, between joints a and c.
JointAngle(pose, side, a, b, c) ==
    angleAtVertex(Named(pose, KpName(side, a)), Named(pose, KpName(side, b)),
                  Named(pose, KpName(side, c)))

SquatSideSatisfied(pose, side) ==
    /\ \A j \in {"hip", "knee", "ankle", "shoulder"} : PassesGate(pose, KpName(side, j))
    /\ JointAngle(pose, side, "hip", "knee", "ankle") # NullAngle
    /\ AngleLess(JointAngle(pose, side, "hip", "knee", "ankle"), 90)
    /\ JointAngle(pose, side, "shoulder", "hip", "knee") # NullAngle
    /\ AngleLess(JointAngle(pose, side, "shoulder", "hip", "knee"), 120)

\* C9: detectSquat logs "Squat detected" exactly when, on the left or on the
\* right side, hip, knee, ankle and shoulder pass the score gate, the
\* hip-knee-ankle angle is defined and below 90 and the shoulder-hip-knee
\* angle is defined and below 120.
C9_SquatRule ==
    squatLog # "none" =>
        (squatLog = "Squat detected" <=>
            \E side \in Sides : SquatSideSatisfied(poses[1], side))

PushUpSideSatisfied(pose, side) ==
    /\ \A j \in {"shoulder", "elbow", "wrist", "hip", "knee", "ankle"} :
           PassesGate(pose, KpName(side, j))
    /\ JointAngle(pose, side, "shoulder", "elbow", "wrist") # NullAngle
    /\ AngleGreater(JointAngle(pose, side, "shoulder", "elbow", "wrist"), 160)
    /\ JointAngle(pose, side, "shoulder", "hip", "ankle") # NullAngle
    /\ AngleGreater(JointAngle(pose, side, "shoulder", "hip", "ankle"), 160)

\* C10: detectPushUp logs "Push-up detected" exactly when, on the left or on
\* the right side, shoulder, elbow, wrist, hip, knee and ankle pass the
\* score gate, the shoulder-elbow-wrist angle is defined and above 160 and
\* the shoulder-hip-ankle angle is defined and less than 20 away from 180.
C10_PushUpRule ==
    pushupLog # "none" =>
        (pushupLog = "Push-up detected" <=>
            \E side \in Sides : PushUpSideSatisfied(poses[1], side))

\* The pose without the keypoints whose name fails the score gate.
Gated(pose) ==
    Pose(SelectSeq(pose.keypoints, LAMBDA k : PassesGate(pose, k.name)))

\* C11: for the pose detectSquat was called on and every keypoint name it
\* reads, getKeypoint returns null when the keypoint is missing or its score
\* is below 0.2 and the keypoint itself when its score is at least 0.2; the
\* keypoints that fail the gate do not enter the result: the line logged is
\* the one logged for the pose without them.
C11_LookupGate ==
    squatLog # "none" =>
        /\ \A side \in Sides, j \in SquatJoints :
               getKeypoint(keypointsDict(poses), KpName(side, j)) =
                   IF PassesGate(poses[1], KpName(side, j))
                   THEN Named(poses[1], KpName(side, j))
                   ELSE Null
        /\ squatLog = detectSquat(<<Gated(poses[1])>>)
        /\ squatLog = "Squat detected" =>
               \E side \in Sides : \A j \in SquatJoints : PassesGate(poses[1], KpName(side, j))

\* The left side squats at scores of exactly 0.2, 0.2 itself passing, while
\* the right side is placed the same and its shoulder, of score 0.1, fails
\* the gate.
C11_Witness ==
    /\ squatLog = "Squat detected"
    /\ \A j \in SquatJoints :
           /\ Occurrences(poses[1], KpName("left", j)) # {}
           /\ Named(poses[1], KpName("left", j)).score = 2
    /\ Occurrences(poses[1], "right_shoulder") # {}
    /\ Named(poses[1], "right_shoulder").score = 1
    /\ \A j \in {"hip", "knee", "ankle"} : PassesGate(poses[1], KpName("right", j))

\* Two of the three points coincide with the vertex b.
Coincident(a, b, c) == (a.x = b.x /\ a.y = b.y) \/ (c.x = b.x /\ c.y = b.y)

\* All keypoints of the joints js of a side pass the score gate.
AllPass(pose, side, js) == \A j \in js : PassesGate(pose, KpName(side, j))

\* An angle the squat rule uses on this side has coincident points.
SquatAngleUndefined(pose, side) ==
    /\ AllPass(pose, side, SquatJoints)
    /\ \/ JointAngle(pose, side, "hip", "knee", "ankle") = NullAngle
       \/ JointAngle(pose, side, "shoulder", "hip", "knee") = NullAngle

\* An angle the push-up rule uses on this side has coincident points.
PushUpAngleUndefined(pose, side) ==
    /\ AllPass(pose, side, Joints)
    /\ \/ JointAngle(pose, side, "shoulder", "elbow", "wrist") = NullAngle
       \/ JointAngle(pose, side, "shoulder", "hip", "ankle") = NullAngle

\* C12: after the classifiers ran on a pose, a side whose knee or hip angle
\* has coincident points does not satisfy the squat rule and a side whose
\* elbow or body-alignment angle has coincident points does not satisfy the
\* push-up rule: calculateAngle returned null for it without dividing, and
\* a detection is due to a side all of whose angles are defined.
C12_UndefinedAngleNotSatisfied ==
    squatCalls > 0 =>
        /\ \A side \in Sides :
               SquatAngleUndefined(poses[1], side) =>
                   /\ ~(IF side = "left" THEN SquatLeft(keypointsDict(poses))
                                         ELSE SquatRight(keypointsDict(poses)))
                   /\ \/ calculateAngle(Named(poses[1], KpName(side, "hip")),
                                        Named(poses[1], KpName(side, "knee")),
                                        Named(poses[1], KpName(side, "ankle"))) = NullAngle
                      \/ calculateAngle(Named(poses[1], KpName(side, "shoulder")),
                                        Named(poses[1], KpName(side, "hip")),
                                        Named(poses[1], KpName(side, "knee"))) = NullAngle
        /\ \A side \in Sides :
               PushUpAngleUndefined(poses[1], side) =>
                   ~(IF side = "left" THEN PushUpLeft(keypointsDict(poses))
                                      ELSE PushUpRight(keypointsDict(poses)))
        /\ squatLog = "Squat detected" =>
               \E side \in Sides :
                   AllPass(poses[1], side, SquatJoints) /\ ~SquatAngleUndefined(poses[1], side)
        /\ pushupLog = "Push-up detected" =>
               \E side \in Sides :
                   AllPass(poses[1], side, Joints) /\ ~PushUpAngleUndefined(poses[1], side)

\* The left ankle lies on the left knee, so the knee angle is undefined,
\* while the hip angle is defined and below 120: no squat is detected.
C12_Witness ==
    /\ squatCalls > 0
    /\ squatLog = "No squat detected"
    /\ AllPass(poses[1], "left", SquatJoints)
    /\ Named(poses[1], "left_ankle").x = Named(poses[1], "left_knee").x
    /\ Named(poses[1], "left_ankle").y = Named(poses[1], "left_knee").y
    /\ JointAngle(poses[1], "left", "hip", "knee", "ankle") = NullAngle
    /\ AngleLess(JointAngle(poses[1], "left", "shoulder", "hip", "knee"), 120)

\* C13: once an estimatePoses call has completed, the fps state is a finite
\* integer: floor(1000 / latency) for a latency of at least 1 ms, which is
\* at most 1000, or a finite sentinel for a latency of 0.
C13_FpsFinite ==
    posesFrame > 0 => fps \in 0..1000

\* C14: the lines the classifiers logged in the last render are those of
\* the raw keypoints of the poses state, whatever the orientation, the
\* camera facing and the platform; a step that changes the orientation or
\* the camera facing and re-renders the same poses logs the same lines.
C14_FrameContextInvariance ==
    [][/\ (mounted' /\ squatCalls' > 0) =>
              /\ squatLog' = detectSquat(poses')
              /\ pushupLog' = detectPushUp(poses')
       /\ (poses' = poses /\ squatCalls > 0
             /\ (orientation' # orientation \/ cameraType' # cameraType)) =>
              /\ squatLog' = squatLog
              /\ pushupLog' = pushupLog]_vars

\* A squat detected on Android in landscape with the back camera, where
\* the overlay is both flipped and stretched.
C14_Witness ==
    /\ mounted
    /\ platform = "android"
    /\ orientation = "LANDSCAPE_LEFT"
    /\ cameraType = "back"
    /\ squatCalls > 0
    /\ squatLog = "Squat detected"
    /\ poses = <<Pose(Crouching("right", MIN_KEYPOINT_SCORE + 1))>>

AngleTriples ==
    { <<"hip", "knee", "ankle">>, <<"shoulder", "hip", "knee">>,
      <<"shoulder", "elbow", "wrist">>, <<"shoulder", "hip", "ankle">> }

\* The keypoint of a joint of a side.
JointOf(pose, side, j) == Named(pose, KpName(side, j))

\* C16: for every triple of keypoints the classifiers computed an angle
\* for, calculateAngle(a, b, c) is null exactly when a = b or c = b, is an
\* angle in degrees for every other triple, and equals calculateAngle(c, b, a).
C16_AngleDefinedAndSymmetric ==
    squatCalls > 0 =>
        \A side \in Sides :
            AllPass(poses[1], side, Joints) =>
                \A t \in AngleTriples :
                    LET a == JointOf(poses[1], side, t[1])
                        b == JointOf(poses[1], side, t[2])
                        c == JointOf(poses[1], side, t[3])
                    IN  /\ calculateAngle(a, b, c) = NullAngle <=> Coincident(a, b, c)
                        /\ ~Coincident(a, b, c) => calculateAngle(a, b, c).kind = "deg"
                        /\ calculateAngle(a, b, c) = calculateAngle(c, b, a)

\* The pose with, of every keypoint name, its last occurrence only.
LastOnly(pose) ==
    Pose(SelectSeq(
        [i \in DOMAIN pose.keypoints |-> [kp |-> pose.keypoints[i], last |->
            \A k \in Occurrences(pose, pose.keypoints[i].name) : k <= i]],
        LAMBDA e : e.last))

StripLast(marked) == [i \in DOMAIN marked |-> marked[i].kp]

\* C17: after the classifiers ran on a pose, the name-indexed view holds
\* for every keypoint name its last occurrence in the keypoint sequence,
\* getKeypoint applies the score gate to that occurrence, and the lines
\* logged are those of the pose with the earlier occurrences removed.
C17_LastOccurrenceWins ==
    squatCalls > 0 =>
        /\ \A side \in Sides, j \in Joints :
               Occurrences(poses[1], KpName(side, j)) # {} =>
                   /\ keypointsDict(poses)[KpName(side, j)] = Named(poses[1], KpName(side, j))
                   /\ getKeypoint(keypointsDict(poses), KpName(side, j)) =
                          IF Named(poses[1], KpName(side, j)).score >= 2
                          THEN Named(poses[1], KpName(side, j))
                          ELSE Null
        /\ squatLog = detectSquat(<<Pose(StripLast(LastOnly(poses[1]).keypoints))>>)
        /\ pushupLog = detectPushUp(<<Pose(StripLast(LastOnly(poses[1]).keypoints))>>)

\* A knee that occurs twice: first the knee of the body in push-up
\* position with a passing score, last one of score 0.1.  The last one
\* counts: the knee is absent and no push-up is detected, while one is
\* detected for the keypoints before it.
C17_Witness ==
    /\ squatCalls > 0
    /\ Cardinality(Occurrences(poses[1], "left_knee")) = 2
    /\ \E i \in Occurrences(poses[1], "left_knee") :
           /\ poses[1].keypoints[i].score >= 2
           /\ i < Len(poses[1].keypoints)
           /\ poses[1].keypoints[i].x = 3
    /\ Named(poses[1], "left_knee").score = 1
    /\ pushupLog = "No push-up detected"
    /\ detectPushUp(<<Pose(SubSeq(poses[1].keypoints, 1, Len(poses[1].keypoints) - 1))>>)
           = "Push-up detected"

\* C18: the only tensor not yet disposed is the one of the estimatePoses
\* call in flight: at most one tensor is unreleased, and none is once the
\* call has settled, whether it resolved, rejected or was cancelled.
C18_TensorReleased ==
    /\ Cardinality(tensors) <= 1
    /\ tensors \subseteq inflight

\* C19: whenever the loop has been started, and in particular whenever an
\* estimatePoses call is in flight, prepare() has completed: the model
\* state holds the detector and tfReady is true.  When prepare() failed the
\* loop is never started: no frame is acquired and no animation frame is
\* requested.
C19_NoLoopBeforeReady ==
    /\ (started \/ inflight # {} \/ acquired > 0 \/ rafQueue # {}) =>
           (model = "detector" /\ tfReady /\ prepareState = "ready")
    /\ prepareState = "failed" =>
           (~started /\ acquired = 0 /\ inflight = {} /\ rafQueue = {} /\ ~tfReady)

\* The second estimatePoses call is in flight, after prepare() completed.
C19_Witness ==
    /\ inflight = {2}
    /\ started
    /\ tfReady
    /\ model = "detector"

\* C20: when the iteration of frame f has completed (its result is
\* published and no later frame is acquired yet) and the loop is not
\* cancelled, rafId holds the id of a requested animation frame, and
\* eventually the next frame is acquired, unless the loop is cancelled
\* first.
C20_NextIterationFollows ==
    \A f \in 1..(MaxFrames - 1) :
        /\ []((posesFrame = f /\ acquired = f /\ rafId # RafCancelled) =>
                 (rafId > 0 /\ rafId \in rafQueue))
        /\ (posesFrame = f /\ acquired = f) ~> (acquired > f \/ rafId = RafCancelled)

\* The iteration of frame 2 has completed and was followed by the
\* acquisition of frame 3, in a loop that was never cancelled.
C20_Witness ==
    /\ mounted
    /\ posesFrame = 2
    /\ acquired = 3
    /\ inflight = {3}
    /\ rafId > 0
    /\ failed = {}
====
